---- MODULE Spec2Model ----
(***************************************************************************)
(* Control flow, exit codes and console reporting of the three scripts of  *)
(* the repository:                                                         *)
(*   examples/run_all_examples.py   (in-process demonstrations, then the   *)
(*                                   four example scripts as subprocesses) *)
(*   test_simple.py                 (assertion-based smoke test)           *)
(*   verify.py                      (import / parse / generate check)      *)
(* The host library (sqlglot and the Vertica dialect) and the child        *)
(* processes are the environment: every call into the host library may     *)
(* return or raise an Exception, every child may exit with any return      *)
(* code and any output, run into the timeout, or fail to launch.           *)
(* `printed` holds the lines the last step wrote to the console.           *)
(***************************************************************************)
EXTENDS Integers, Sequences, FiniteSets, TLC

VARIABLES
    prog,           \* the script that was invoked
    pc,             \* position in that script
    idx,            \* loop index / number of steps completed
    passed,         \* quick_dialect_validation: passed
    failed,         \* quick_dialect_validation: failed
    valFailed,      \* history: "Validation Results" was printed with failed > 0
    unsupAccepted,  \* history: "Should have failed but didn't" was printed
    results,        \* main: results
    procs,          \* lifecycle of the child process of each example script
    started,        \* history: how many times each example script was started
    child,          \* the child process main is (or was last) waiting for
    ret,            \* main: success, output, exec_time = run_example_script(script)
    printed,        \* console lines written by the last step
    exitCode,       \* process exit code (-1 while running)
    uncaught,       \* the process ended by an uncaught exception (traceback)
    host,           \* test_simple / verify: the host library's last answer
    parsed,         \* test_simple / verify: len of the list Vertica.parse returned
    failedAt        \* test_simple / verify: the step whose exception was caught (0: none)

vars == <<prog, pc, idx, passed, failed, valFailed, unsupAccepted, results, procs,
          started, child, ret, printed, exitCode, uncaught, host, parsed, failedAt>>

-----------------------------------------------------------------------------
(* Program constants *)

NumTestCases == 6
NumTargets == 3
NumUnsupported == 3
NumFunctions == 4
iterations == 100
Timeout == 30
TruncLen == 200
NumSteps == 8
NumVerifySteps == 3

example_scripts ==
    <<"basic_usage.py", "advanced_transformations.py",
      "data_migration.py", "performance_analysis.py">>

Scripts == 1..Len(example_scripts)

(* Bounds of the environment *)

MaxOutLen == 201        \* longest text a child writes to a stream
MaxRetCode == 2         \* largest return code of a child
MaxSignal == 1          \* a child ended by signal s has return code -s
MaxStmts == 2           \* most statements the host parser returns

Programs == {"run_all_examples", "test_simple", "verify"}

-----------------------------------------------------------------------------
(* Console lines *)

Line(tag, text, nums) == [tag |-> tag, text |-> text, nums |-> nums]

NoText == << >>

Text(c, n) == [i \in 1..n |-> c]

OutLens == {0, 1, MaxOutLen}
StdoutTexts == {Text("o", n) : n \in OutLens}
StderrTexts == {Text("e", n) : n \in OutLens}

RetCodes == (0 - MaxSignal)..MaxRetCode

Min(a, b) == IF a < b THEN a ELSE b

\* output[:200]
Truncate(s) == SubSeq(s, 1, Min(TruncLen, Len(s)))

TimedOutMsg == <<"Script timed out after 30 seconds">>
LaunchErrors == {"OSError"}
ErrorMsg(e) == <<"Error running script: ", e>>

-----------------------------------------------------------------------------
(* Child processes *)

NoChild == [state |-> "none", returncode |-> 0, stdout |-> NoText,
            stderr |-> NoText, elapsed |-> 0, error |-> "none"]

NoRet == [raised |-> FALSE, success |-> FALSE, output |-> NoText, exec_time |-> 0]

Terminated == {"exited", "killed", "nolaunch"}

ExitTimes == {0, Timeout - 1}

\* run_example_script without the `except subprocess.TimeoutExpired` clause:
\* the timeout falls to the generic handler
run_example_script_NoTimeoutClause(c) ==
    CASE c.state = "exited" ->
            [raised |-> FALSE,
             success |-> (c.returncode = 0),
             output |-> IF c.returncode = 0 THEN c.stdout ELSE c.stderr,
             exec_time |-> c.elapsed]
      [] OTHER ->
            [raised |-> FALSE, success |-> FALSE, output |-> ErrorMsg(c.error),
             exec_time |-> c.elapsed]

\* run_example_script without the `except Exception` clause: a failure to
\* launch the child propagates to main
run_example_script_NoExceptClause(c) ==
    CASE c.state = "exited" ->
            [raised |-> FALSE,
             success |-> (c.returncode = 0),
             output |-> IF c.returncode = 0 THEN c.stdout ELSE c.stderr,
             exec_time |-> c.elapsed]
      [] c.state = "killed" ->
            [raised |-> FALSE, success |-> FALSE, output |-> TimedOutMsg,
             exec_time |-> c.elapsed]
      [] OTHER ->
            [raised |-> TRUE, success |-> FALSE, output |-> NoText,
             exec_time |-> c.elapsed]

\* run_example_script: what it hands back to main for a child that ended as c
run_example_script(c) ==
    CASE c.state = "exited" ->
            [raised |-> FALSE,
             success |-> (c.returncode = 0),
             output |-> IF c.returncode = 0 THEN c.stdout ELSE c.stderr,
             exec_time |-> c.elapsed]
      [] c.state = "killed" ->
            [raised |-> FALSE, success |-> FALSE, output |-> TimedOutMsg,
             exec_time |-> c.elapsed]
      [] OTHER ->
            [raised |-> FALSE, success |-> FALSE, output |-> ErrorMsg(c.error),
             exec_time |-> c.elapsed]

\* the report with the whole output printed instead of output[:200]
ScriptReport_Untruncated(r) ==
    IF r.success
    THEN <<Line("Completed successfully", NoText, <<r.exec_time>>)>>
    ELSE <<Line("Failed after", NoText, <<r.exec_time>>),
           Line("Error:", r.output, << >>)>>

\* main: the lines printed for one script after run_example_script returned
ScriptReport(r) ==
    IF r.success
    THEN <<Line("Completed successfully", NoText, <<r.exec_time>>)>>
    ELSE <<Line("Failed after", NoText, <<r.exec_time>>),
           Line("Error:", Truncate(r.output), << >>)>>

\* the loop leaving at the first failed script
AfterScript_BreakOnFailure(i, success) ==
    IF i < Len(example_scripts) /\ success THEN "scripts" ELSE "summary"

\* main: the for loop over example_scripts goes on after script i
AfterScript(i, success) ==
    IF i < Len(example_scripts) THEN "scripts" ELSE "summary"

\* main: successful = sum(1 for _, success, _ in results if success)
Successful(rs) == Cardinality({k \in 1..Len(rs) : rs[k].success})

\* the final status with `successful > 0` for `successful == total_scripts`
FinalStatus_AnySuccessful(rs) == IF Successful(rs) > 0 THEN 0 ELSE 1

\* main: the final status
FinalStatus(rs) == IF Successful(rs) = Len(rs) THEN 0 ELSE 1

-----------------------------------------------------------------------------
(* Host library *)

HostOutcomes == {"ok", "raise"}

NoHost == [raise |-> FALSE, n |-> 0, text |-> "none"]

\* the tally with `failed += 1` missing from the handler
ValidationTally_NoFailedIncrement(p, f, outcome) ==
    IF outcome = "ok" THEN <<p + 1, f>> ELSE <<p, f>>

\* quick_dialect_validation: the tally after one test case
ValidationTally(p, f, outcome) ==
    IF outcome = "ok" THEN <<p + 1, f>> ELSE <<p, f + 1>>

-----------------------------------------------------------------------------
Init ==
    /\ prog \in Programs
    /\ pc = "start"
    /\ idx = 0
    /\ passed = 0
    /\ failed = 0
    /\ valFailed = FALSE
    /\ unsupAccepted = FALSE
    /\ results = << >>
    /\ procs = [i \in Scripts |-> "notstarted"]
    /\ started = [i \in Scripts |-> 0]
    /\ child = NoChild
    /\ ret = NoRet
    /\ printed = << >>
    /\ exitCode = -1
    /\ uncaught = FALSE
    /\ host = NoHost
    /\ parsed = 0
    /\ failedAt = 0

\* An exception no handler catches: traceback, exit code 1
Crash ==
    /\ pc' = "exited"
    /\ exitCode' = 1
    /\ uncaught' = TRUE
    /\ printed' = <<Line("Traceback", NoText, << >>)>>

-----------------------------------------------------------------------------
(* run_all_examples.py *)

MainStart ==
    /\ prog = "run_all_examples"
    /\ pc = "start"
    /\ pc' = "validation"
    /\ printed' = <<Line("VERTICA SQLGLOT DIALECT", NoText, << >>),
                    Line("QUICK DIALECT VALIDATION", NoText, << >>)>>
    /\ idx' = 0
    /\ passed' = 0
    /\ failed' = 0
    /\ UNCHANGED <<prog, valFailed, unsupAccepted, results, procs, started, child,
                   ret, exitCode, uncaught, host, parsed, failedAt>>

\* quick_dialect_validation: one test case of the loop
ValidationCase ==
    /\ pc = "validation"
    /\ idx < NumTestCases
    /\ \E outcome \in HostOutcomes :
          LET t == ValidationTally(passed, failed, outcome) IN
          /\ passed' = t[1]
          /\ failed' = t[2]
          /\ printed' = <<Line(IF outcome = "ok" THEN "PASSED" ELSE "FAILED",
                               NoText, <<idx + 1>>)>>
    /\ idx' = idx + 1
    /\ UNCHANGED <<prog, pc, valFailed, unsupAccepted, results, procs, started,
                   child, ret, exitCode, uncaught, host, parsed, failedAt>>

\* quick_dialect_validation: the totals; then demonstrate_key_features begins
ValidationEnd ==
    /\ pc = "validation"
    /\ idx = NumTestCases
    /\ printed' = <<Line("Validation Results", NoText, <<passed, failed>>),
                    Line("KEY FEATURES DEMONSTRATION", NoText, << >>)>>
    /\ valFailed' = (failed > 0)
    /\ passed' = 0
    /\ failed' = 0
    /\ idx' = 0
    /\ pc' = "transpile"
    /\ UNCHANGED <<prog, unsupAccepted, results, procs, started, child, ret,
                   exitCode, uncaught, host, parsed, failedAt>>

\* demonstrate_key_features: feature 1, one target
TranspileTarget ==
    /\ pc = "transpile"
    /\ idx < NumTargets
    /\ \E outcome \in HostOutcomes :
          printed' = <<Line(IF outcome = "ok" THEN "converted" ELSE "Error -",
                            NoText, <<idx + 1>>)>>
    /\ idx' = idx + 1
    /\ UNCHANGED <<prog, pc, passed, failed, valFailed, unsupAccepted, results,
                   procs, started, child, ret, exitCode, uncaught, host, parsed,
                   failedAt>>

TranspileEnd ==
    /\ pc = "transpile"
    /\ idx = NumTargets
    /\ idx' = 0
    /\ pc' = "unsupported"
    /\ printed' = <<Line("Error Handling for Unsupported Features", NoText, << >>)>>
    /\ UNCHANGED <<prog, passed, failed, valFailed, unsupAccepted, results,
                   procs, started, child, ret, exitCode, uncaught, host, parsed,
                   failedAt>>

\* demonstrate_key_features: feature 2, one unsupported case
UnsupportedCase ==
    /\ pc = "unsupported"
    /\ idx < NumUnsupported
    /\ \E outcome \in HostOutcomes :
          /\ printed' = <<Line(IF outcome = "ok"
                               THEN "Should have failed but didn't"
                               ELSE "Correctly rejected", NoText, <<idx + 1>>)>>
          /\ unsupAccepted' = (unsupAccepted \/ outcome = "ok")
    /\ idx' = idx + 1
    /\ UNCHANGED <<prog, pc, passed, failed, valFailed, results, procs, started,
                   child, ret, exitCode, uncaught, host, parsed, failedAt>>

UnsupportedEnd ==
    /\ pc = "unsupported"
    /\ idx = NumUnsupported
    /\ idx' = 0
    /\ pc' = "functions"
    /\ printed' = <<Line("Vertica-Specific Functions", NoText, << >>)>>
    /\ UNCHANGED <<prog, passed, failed, valFailed, unsupAccepted, results,
                   procs, started, child, ret, exitCode, uncaught, host, parsed,
                   failedAt>>

\* demonstrate_key_features: feature 3, one function
FunctionCase ==
    /\ pc = "functions"
    /\ idx < NumFunctions
    /\ \E outcome \in HostOutcomes :
          printed' = <<Line(IF outcome = "ok" THEN "ok" ELSE "Error:",
                            NoText, <<idx + 1>>)>>
    /\ idx' = idx + 1
    /\ UNCHANGED <<prog, pc, passed, failed, valFailed, unsupAccepted, results,
                   procs, started, child, ret, exitCode, uncaught, host, parsed,
                   failedAt>>

FunctionsEnd ==
    /\ pc = "functions"
    /\ idx = NumFunctions
    /\ idx' = 0
    /\ pc' = "perf_loop"
    /\ printed' = <<Line("PERFORMANCE SUMMARY", NoText, << >>)>>
    /\ UNCHANGED <<prog, passed, failed, valFailed, unsupAccepted, results,
                   procs, started, child, ret, exitCode, uncaught, host, parsed,
                   failedAt>>

\* show_performance_summary: one parse_one of the timing loop (no handler)
PerfParse ==
    /\ pc = "perf_loop"
    /\ idx < iterations
    /\ \E outcome \in HostOutcomes :
          IF outcome = "ok"
          THEN /\ idx' = idx + 1
               /\ printed' = << >>
               /\ UNCHANGED <<pc, exitCode, uncaught>>
          ELSE /\ Crash
               /\ UNCHANGED idx
    /\ UNCHANGED <<prog, passed, failed, valFailed, unsupAccepted, results,
                   procs, started, child, ret, host, parsed, failedAt>>

PerfLoopEnd ==
    /\ pc = "perf_loop"
    /\ idx = iterations
    /\ pc' = "perf_ast"
    /\ printed' = <<Line("Parse Performance:", NoText, <<iterations>>)>>
    /\ UNCHANGED <<prog, idx, passed, failed, valFailed, unsupAccepted, results,
                   procs, started, child, ret, exitCode, uncaught, host, parsed,
                   failedAt>>

\* show_performance_summary: the AST complexity part (no handler); then main
\* announces the example scripts
PerfAst ==
    /\ pc = "perf_ast"
    /\ \E outcome \in HostOutcomes :
          IF outcome = "ok"
          THEN /\ pc' = "scripts"
               /\ idx' = 0
               /\ printed' = <<Line("AST Complexity:", NoText, << >>),
                               Line("RUNNING ALL EXAMPLE SCRIPTS", NoText, << >>)>>
               /\ UNCHANGED <<exitCode, uncaught>>
          ELSE /\ Crash
               /\ UNCHANGED idx
    /\ results' = << >>
    /\ UNCHANGED <<prog, passed, failed, valFailed, unsupAccepted, procs,
                   started, child, ret, host, parsed, failedAt>>

\* main: "Running <script>...", then run_example_script enters subprocess.run
StartScript ==
    /\ pc = "scripts"
    /\ idx < Len(example_scripts)
    /\ started' = [started EXCEPT ![idx + 1] = @ + 1]
    /\ printed' = <<Line("Running", <<example_scripts[idx + 1]>>, << >>)>>
    /\ \E launch \in {"ok"} \cup LaunchErrors :
          IF launch = "ok"
          THEN /\ child' = [NoChild EXCEPT !.state = "running"]
               /\ procs' = [procs EXCEPT ![idx + 1] = "running"]
               /\ pc' = "waiting"
          ELSE /\ child' = [NoChild EXCEPT !.state = "nolaunch", !.error = launch]
               /\ procs' = [procs EXCEPT ![idx + 1] = "nolaunch"]
               /\ pc' = "returning"
    /\ UNCHANGED <<prog, idx, passed, failed, valFailed, unsupAccepted, results,
                   ret, exitCode, uncaught, host, parsed, failedAt>>

\* the child exits within the timeout
ChildExits ==
    /\ pc = "waiting"
    /\ child.state = "running"
    /\ \E rc \in RetCodes, out \in StdoutTexts, err \in StderrTexts, t \in ExitTimes :
          child' = [state |-> "exited", returncode |-> rc, stdout |-> out,
                    stderr |-> err, elapsed |-> t, error |-> "none"]
    /\ procs' = [procs EXCEPT ![idx + 1] = "exited"]
    /\ pc' = "returning"
    /\ UNCHANGED <<prog, idx, passed, failed, valFailed, unsupAccepted, results,
                   started, ret, printed, exitCode, uncaught, host, parsed,
                   failedAt>>

\* timeout=30 passes with the child still running: subprocess.run kills it and
\* raises TimeoutExpired
ChildTimesOut ==
    /\ pc = "waiting"
    /\ child.state = "running"
    /\ \E out \in StdoutTexts, err \in StderrTexts :
          child' = [state |-> "killed", returncode |-> 0 - MaxSignal,
                    stdout |-> out, stderr |-> err, elapsed |-> Timeout,
                    error |-> "TimeoutExpired"]
    /\ procs' = [procs EXCEPT ![idx + 1] = "killed"]
    /\ pc' = "returning"
    /\ UNCHANGED <<prog, idx, passed, failed, valFailed, unsupAccepted, results,
                   started, ret, printed, exitCode, uncaught, host, parsed,
                   failedAt>>

\* run_example_script returns; main appends to results and reports
ScriptReturns ==
    /\ pc = "returning"
    /\ LET r == run_example_script(child) IN
          /\ ret' = r
          /\ IF r.raised
             THEN /\ Crash
                  /\ UNCHANGED <<idx, results>>
             ELSE /\ results' = Append(results,
                                   [script |-> example_scripts[idx + 1],
                                    success |-> r.success,
                                    exec_time |-> r.exec_time])
                  /\ printed' = ScriptReport(r)
                  /\ idx' = idx + 1
                  /\ pc' = AfterScript(idx + 1, r.success)
                  /\ UNCHANGED <<exitCode, uncaught>>
    /\ UNCHANGED <<prog, passed, failed, valFailed, unsupAccepted, procs,
                   started, child, host, parsed, failedAt>>

\* main: the execution summary and the final status
Summary ==
    /\ pc = "summary"
    /\ LET successful == Successful(results)
           total_scripts == Len(results)
           status == FinalStatus(results) IN
          /\ printed' = <<Line("EXECUTION SUMMARY", NoText,
                               <<total_scripts, successful,
                                 total_scripts - successful>>),
                          Line(IF status = 0
                               THEN "ALL EXAMPLES COMPLETED SUCCESSFULLY!"
                               ELSE "Some examples failed.", NoText, << >>)>>
          /\ exitCode' = status
    /\ pc' = "exited"
    /\ UNCHANGED <<prog, idx, passed, failed, valFailed, unsupAccepted, results,
                   procs, started, child, ret, uncaught, host, parsed, failedAt>>

-----------------------------------------------------------------------------
(* test_simple.py *)

GeneratedTexts == {"same", "keyword", "other"}

\* what the host library answers to the calls of one step: an exception, or
\* n parsed / transpiled statements and a generated text that is the input
\* ("same"), differs from it and holds the keyword looked for ("keyword"), or
\* neither ("other")
HostResults == [raise : BOOLEAN, n : 0..MaxStmts, text : GeneratedTexts]

\* the steps with `assert generated == sql` missing
StepCompletes_NoEqualityAssert(s, h) ==
    CASE s = 1 -> ~h.raise
      [] s = 2 -> ~h.raise /\ h.n > 0
      [] s = 3 -> ~h.raise
      [] s \in 4..7 -> ~h.raise /\ h.n > 0 /\ h.text # "other"
      [] OTHER -> ~h.raise /\ h.n > 0

\* test_basic_functionality: step s runs to its print without an exception
\* or a failed assertion
StepCompletes(s, h) ==
    CASE s = 1 -> ~h.raise
      [] s = 2 -> ~h.raise /\ h.n > 0
      [] s = 3 -> ~h.raise /\ h.text = "same"
      [] s \in 4..7 -> ~h.raise /\ h.n > 0 /\ h.text # "other"
      [] OTHER -> ~h.raise /\ h.n > 0

TestStart ==
    /\ prog = "test_simple"
    /\ pc = "start"
    /\ pc' = "test"
    /\ idx' = 0
    /\ printed' = <<Line("Testing Vertica SQLGlot Dialect Implementation",
                         NoText, << >>)>>
    /\ UNCHANGED <<prog, passed, failed, valFailed, unsupAccepted, results, procs,
                   started, child, ret, exitCode, uncaught, host, parsed, failedAt>>

\* test_basic_functionality: one step inside the try
TestStep ==
    /\ pc = "test"
    /\ idx < NumSteps
    /\ \E h \in HostResults :
          /\ host' = h
          /\ IF StepCompletes(idx + 1, h)
             THEN /\ idx' = idx + 1
                  /\ parsed' = IF idx + 1 \in {2, 4, 5, 6, 7} THEN h.n ELSE parsed
                  /\ printed' = <<Line("ok", NoText, <<idx + 1>>)>> \o
                                (IF idx + 1 = NumSteps
                                 THEN <<Line("All basic tests passed!", NoText, << >>)>>
                                 ELSE << >>)
                  /\ ret' = [NoRet EXCEPT !.success = (idx + 1 = NumSteps)]
                  /\ pc' = IF idx + 1 = NumSteps THEN "test_main" ELSE "test"
                  /\ UNCHANGED failedAt
             ELSE /\ failedAt' = idx + 1
                  /\ printed' = <<Line("Test failed with error:", NoText, <<idx + 1>>),
                                  Line("Traceback", NoText, << >>)>>
                  /\ ret' = NoRet
                  /\ pc' = "test_main"
                  /\ UNCHANGED <<idx, parsed>>
    /\ UNCHANGED <<prog, passed, failed, valFailed, unsupAccepted, results, procs,
                   started, child, exitCode, uncaught>>

\* __main__: sys.exit(0) if success else sys.exit(1)
TestExitCode(success) == IF success THEN 0 ELSE 1

TestMain ==
    /\ pc = "test_main"
    /\ exitCode' = TestExitCode(ret.success)
    /\ printed' = <<Line(IF ret.success
                         THEN "Implementation is working correctly!"
                         ELSE "Implementation has issues that need to be fixed.",
                         NoText, << >>)>>
    /\ pc' = "exited"
    /\ UNCHANGED <<prog, idx, passed, failed, valFailed, unsupAccepted, results,
                   procs, started, child, ret, uncaught, host, parsed, failedAt>>

-----------------------------------------------------------------------------
(* verify.py *)

\* step s of the try block raises: the import, Vertica.parse, or result[0]
\* and Vertica().generate
VerifyRaises(s, h, n) == h.raise \/ (s = NumVerifySteps /\ n = 0)

\* the exit code of the module body: it ends without sys.exit
VerifyExitCode(caught) == 0

VerifyStep ==
    /\ prog = "verify"
    /\ pc = "start"
    /\ idx < NumVerifySteps
    /\ \E h \in HostResults :
          /\ host' = h
          /\ IF VerifyRaises(idx + 1, h, parsed)
             THEN /\ failedAt' = idx + 1
                  /\ printed' = <<Line("ERROR:", NoText, <<idx + 1>>),
                                  Line("Traceback", NoText, << >>)>>
                  /\ pc' = "verify_end"
                  /\ UNCHANGED <<idx, parsed>>
             ELSE /\ idx' = idx + 1
                  /\ parsed' = IF idx + 1 = 2 THEN h.n ELSE parsed
                  /\ printed' = <<Line("SUCCESS:", NoText, <<idx + 1>>)>>
                  /\ pc' = IF idx + 1 = NumVerifySteps THEN "verify_end" ELSE "start"
                  /\ UNCHANGED failedAt
    /\ UNCHANGED <<prog, passed, failed, valFailed, unsupAccepted, results, procs,
                   started, child, ret, exitCode, uncaught>>

VerifyEnd ==
    /\ pc = "verify_end"
    /\ exitCode' = VerifyExitCode(failedAt # 0)
    /\ printed' = << >>
    /\ pc' = "exited"
    /\ UNCHANGED <<prog, idx, passed, failed, valFailed, unsupAccepted, results,
                   procs, started, child, ret, uncaught, host, parsed, failedAt>>

-----------------------------------------------------------------------------
Next ==
    \/ MainStart
    \/ ValidationCase
    \/ ValidationEnd
    \/ TranspileTarget
    \/ TranspileEnd
    \/ UnsupportedCase
    \/ UnsupportedEnd
    \/ FunctionCase
    \/ FunctionsEnd
    \/ PerfParse
    \/ PerfLoopEnd
    \/ PerfAst
    \/ StartScript
    \/ ChildExits
    \/ ChildTimesOut
    \/ ScriptReturns
    \/ Summary
    \/ TestStart
    \/ TestStep
    \/ TestMain
    \/ VerifyStep
    \/ VerifyEnd

Spec == Init /\ [][Next]_vars

-----------------------------------------------------------------------------
(* Properties *)

Runner == prog = "run_all_examples"

RunnerExited == Runner /\ pc = "exited"

\* main has just reported the script whose child is `child`
JustReported ==
    /\ Runner
    /\ Len(printed) > 0
    /\ printed[1].tag \in {"Completed successfully", "Failed after"}

AllSuccessful == \A k \in 1..Len(results) : results[k].success

\* text t is part of what the last step wrote to the console
Appears(t) ==
    \/ t = NoText
    \/ \E k \in 1..Len(printed) :
          LET p == printed[k].text IN
          /\ Len(t) <= Len(p)
          /\ \E o \in 0..(Len(p) - Len(t)) : SubSeq(p, o + 1, o + Len(t)) = t

\* C1: main() of run_all_examples.py returns 0 exactly when every one of the
\* four example scripts was recorded as successful and 1 in every other run
\* that reaches the final status; it never returns 0 with a recorded failure.
C1_ExitCodeIffAllSuccessful ==
    RunnerExited =>
        /\ exitCode \in {0, 1}
        /\ exitCode = 0 =>
              /\ ~uncaught
              /\ Len(results) = Len(example_scripts)
              /\ \A k \in 1..Len(results) :
                    results[k].success /\ results[k].script = example_scripts[k]
        /\ ~uncaught => (exitCode = 0 <=> AllSuccessful)

C1_Witness ==
    /\ RunnerExited
    /\ exitCode = 0
    /\ Len(results) = Len(example_scripts)

\* the seven checks and the import, as C2 lists them
C2_CheckHolds(s, h) ==
    /\ ~h.raise
    /\ s \in {2, 8} => h.n > 0
    /\ s = 3 => h.text = "same"
    /\ s \in 4..7 => h.n > 0 /\ h.text \in {"same", "keyword"}

\* C2: test_simple.py exits 0 iff the import and all seven checks complete
\* without an exception or failed assertion; on the first failure it prints a
\* diagnostic, runs no further check and exits 1.
C2_TestExitCode ==
    (prog = "test_simple" /\ (idx > 0 \/ failedAt # 0)) =>
        LET s == IF failedAt # 0 THEN failedAt ELSE idx IN
        /\ failedAt # 0 <=> ~C2_CheckHolds(s, host)
        /\ failedAt # 0 => idx = failedAt - 1 /\ pc \in {"test_main", "exited"}
        /\ (failedAt # 0 /\ pc = "test_main") =>
              printed[1].tag = "Test failed with error:"
        /\ pc = "exited" =>
              exitCode = IF failedAt = 0 /\ idx = NumSteps THEN 0 ELSE 1

C2_Witness ==
    /\ prog = "test_simple"
    /\ pc = "exited"
    /\ failedAt = 3
    /\ ~host.raise
    /\ exitCode = 1

\* C3: verify.py exits with a nonzero code whenever the import, Vertica.parse
\* or Vertica().generate raises, and with 0 only when all three steps succeed.
C3_VerifyExitCode ==
    (prog = "verify" /\ pc = "exited") =>
        (exitCode = 0 <=> (failedAt = 0 /\ idx = NumVerifySteps))

\* C4: whatever a child wrote to stdout and to stderr appears in the runner's
\* own output, whether the child succeeded or failed.
C4_PassThrough ==
    (JustReported /\ child.state \in {"exited", "killed"}) =>
        Appears(child.stdout) /\ Appears(child.stderr)

\* C4 (amended): the runner captures the child's streams.  For a child that
\* succeeds nothing the child wrote is printed; for a child that exits with a
\* nonzero return code only the first 200 characters of its stderr are
\* printed; for a child that timed out or failed to launch only the runner's
\* own message is printed.
C4_CapturedAndTruncated ==
    JustReported =>
        /\ ret.success => \A k \in 1..Len(printed) : printed[k].text = NoText
        /\ ~ret.success =>
              /\ Len(printed) = 2
              /\ printed[1].text = NoText
              /\ LET p == printed[2].text IN
                 CASE child.state = "exited" ->
                        /\ Len(p) = Min(TruncLen, Len(child.stderr))
                        /\ \A i \in 1..Len(p) : p[i] = child.stderr[i]
                   [] child.state = "killed" -> p = TimedOutMsg
                   [] OTHER -> p = ErrorMsg(child.error)

C4_Witness ==
    /\ JustReported
    /\ child.state = "exited"
    /\ child.returncode # 0
    /\ Len(child.stderr) > TruncLen
    /\ Len(child.stdout) > 0
    /\ Len(printed[2].text) = TruncLen

\* C5: a child that has not exited within the 30-second timeout is recorded
\* as failed with the output 'Script timed out after 30 seconds', is not
\* waited for further, the runner goes on to the next script, and the run
\* ends with exit code 1.
C5_Timeout ==
    Runner =>
        /\ pc = "waiting" => child.state = "running"
        /\ (JustReported /\ child.state = "killed") =>
              /\ ret = [raised |-> FALSE, success |-> FALSE,
                        output |-> TimedOutMsg, exec_time |-> Timeout]
              /\ ~results[Len(results)].success
              /\ printed[2].text = TimedOutMsg
        /\ \A i \in Scripts :
              procs[i] = "killed" =>
                 /\ ~uncaught
                 /\ pc \in {"scripts", "waiting", "returning", "summary", "exited"}
                 /\ i <= Len(results) => ~results[i].success
                 /\ i < Len(results) => procs[i + 1] # "notstarted"
                 /\ pc \in {"summary", "exited"} =>
                       \A j \in Scripts : started[j] = 1 /\ j <= Len(results)
                 /\ pc = "exited" => exitCode = 1
                 /\ pc # "exited" => ENABLED Next

C5_Witness ==
    /\ RunnerExited
    /\ procs[1] = "killed"
    /\ procs[2] = "exited"
    /\ results[2].success
    /\ exitCode = 1

\* C6: every exception raised by a host-library call in a demonstration step
\* is caught and the run continues: main() still runs all four example
\* scripts and reaches the execution summary.
C6_DemonstrationNonFatal ==
    Runner =>
        /\ ~uncaught
        /\ pc = "exited" => Len(results) = Len(example_scripts)

\* C7: run_all_examples.py exits 0 only when its in-process examples passed
\* too: a failed quick_dialect_validation case or an accepted 'unsupported
\* feature' case makes the exit code 1.
C7_InProcessFailuresFatal ==
    (RunnerExited /\ (valFailed \/ unsupAccepted)) => exitCode = 1

\* C8: the child scripts are run one at a time in list order: each is started
\* exactly once and only after the previous one has exited or timed out, an
\* earlier failure never prevents a later script from being run, and the
\* results list ends with one entry per script in the same order.
C8_Sequential ==
    Runner =>
        /\ \A i \in Scripts :
              /\ started[i] <= 1
              /\ started[i] = 1 <=> procs[i] # "notstarted"
              /\ started[i] = 1 =>
                    \A j \in 1..(i - 1) :
                       /\ started[j] = 1
                       /\ procs[j] \in Terminated
                       /\ j <= Len(results)
        /\ Cardinality({i \in Scripts : procs[i] = "running"}) <= 1
        /\ Len(results) <= Len(example_scripts)
        /\ \A k \in 1..Len(results) :
              /\ results[k].script = example_scripts[k]
              /\ procs[k] \in Terminated
        /\ (pc \in {"summary", "exited"} /\ ~uncaught) =>
              /\ Len(results) = Len(example_scripts)
              /\ \A i \in Scripts : started[i] = 1

C8_Witness ==
    /\ RunnerExited
    /\ ~uncaught
    /\ ~results[1].success
    /\ procs[2] = "nolaunch"
    /\ started[4] = 1
    /\ results[4].success

\* C9: run_example_script never raises to its caller; it returns success
\* exactly when the child was started, finished within the timeout and
\* exited with return code 0, with the child's stdout as output; in every
\* other case it returns failure with the child's stderr or an error message.
C9_RunExampleScript ==
    Runner =>
        /\ ~ret.raised
        /\ uncaught => \A i \in Scripts : started[i] = 0
        /\ JustReported =>
              /\ ret.success <=> (child.state = "exited" /\ child.returncode = 0)
              /\ ret.success => ret.output = child.stdout
              /\ ~ret.success =>
                    CASE child.state = "exited" -> ret.output = child.stderr
                      [] child.state = "killed" -> ret.output = TimedOutMsg
                      [] OTHER -> ret.output = ErrorMsg(child.error)

C9_Witness ==
    /\ JustReported
    /\ child.state = "nolaunch"
    /\ ~ret.success
    /\ Len(results) = 2
    /\ results[1].success

\* C10: the tallies are consistent: in quick_dialect_validation
\* passed + failed is the number of cases run and the printed totals sum to
\* 6; in main's summary Successful + Failed is the number of scripts
\* executed, both non-negative.
C10_Tallies ==
    /\ pc = "validation" =>
          passed + failed = idx /\ passed >= 0 /\ failed >= 0
    /\ \A k \in 1..Len(printed) :
          /\ printed[k].tag = "Validation Results" =>
                /\ printed[k].nums[1] + printed[k].nums[2] = NumTestCases
                /\ printed[k].nums[1] >= 0
                /\ printed[k].nums[2] >= 0
                /\ valFailed <=> printed[k].nums[2] > 0
          /\ printed[k].tag = "EXECUTION SUMMARY" =>
                /\ printed[k].nums[1] = Len(results)
                /\ printed[k].nums[2] + printed[k].nums[3] = printed[k].nums[1]
                /\ printed[k].nums[2] >= 0
                /\ printed[k].nums[3] =
                      Cardinality({j \in 1..Len(results) : ~results[j].success})

C10_Witness ==
    /\ RunnerExited
    /\ valFailed
    /\ Len(printed) = 2
    /\ printed[1].tag = "EXECUTION SUMMARY"
    /\ printed[1].nums[2] = 1
    /\ printed[1].nums[3] = 3

====
